---- MODULE Spec2Model ----
(***************************************************************************)
(* Model of install.py of sd-webui-live-portrait: the requirement loop     *)
(* (install_requirements), the ONNX-runtime selector (install_onnxruntime) *)
(* and the XPose native operator build (install_xpose).                    *)
(*                                                                         *)
(* Text is modelled as sequences of one-character strings, so that the     *)
(* substring tests, str.split, str.strip and packaging's version parser    *)
(* are computed the way the code computes them.                            *)
(***************************************************************************)
EXTENDS Integers, Sequences, FiniteSets, TLC

\* ------------------------------------------------------------------ bounds
\* Longest requirements file the requirement loop is run on.
MaxReqs == 2
\* How many times the load sequence runs install_xpose (plugin reloads).
MaxRuns == 2

\* ------------------------------------------------------------------- text
None == <<"N", "o", "n", "e", "!">>

DigitChars == <<"0", "1", "2", "3", "4", "5", "6", "7", "8", "9">>

IsDigit(c) == \E d \in 1..10 : DigitChars[d] = c

DigitVal(c) == (CHOOSE d \in 1..10 : DigitChars[d] = c) - 1

IsDigits(s) == s # <<>> /\ \A i \in 1..Len(s) : IsDigit(s[i])

RECURSIVE ParseInt(_)
ParseInt(s) ==
    IF s = <<>> THEN 0
    ELSE 10 * ParseInt(SubSeq(s, 1, Len(s) - 1)) + DigitVal(s[Len(s)])

RECURSIVE IntStr(_)
IntStr(n) ==
    IF n < 10 THEN <<DigitChars[n + 1]>>
    ELSE IntStr(n \div 10) \o <<DigitChars[(n % 10) + 1]>>

Dot == <<".">>

\* "a.b" and "a.b.c" as text.
V2(a, b) == IntStr(a) \o Dot \o IntStr(b)

V3(a, b, c) == V2(a, b) \o Dot \o IntStr(c)

MatchAt(s, sub, i) ==
    /\ i + Len(sub) - 1 <= Len(s)
    /\ SubSeq(s, i, i + Len(sub) - 1) = sub

\* Python's `sub in s` for a non-empty sub.
Contains(s, sub) == \E i \in 1..Len(s) : MatchAt(s, sub, i)

\* str.find, 1-based; 0 when sub does not occur.
Find(s, sub) ==
    IF Contains(s, sub)
    THEN CHOOSE i \in 1..Len(s) :
            MatchAt(s, sub, i) /\ \A j \in 1..(i - 1) : ~MatchAt(s, sub, j)
    ELSE 0

\* str.split(sep): the pieces between the non-overlapping occurrences of sep,
\* left to right.  SplitAt is the step at the first occurrence, i.
RECURSIVE Split(_, _), SplitAt(_, _, _)
Split(s, sep) == SplitAt(s, sep, Find(s, sep))

SplitAt(s, sep, i) ==
    IF i = 0 THEN <<s>>
    ELSE <<SubSeq(s, 1, i - 1)>> \o Split(SubSeq(s, i + Len(sep), Len(s)), sep)

Whitespace == {" ", "\n", "\t"}

RECURSIVE LStrip(_)
LStrip(s) ==
    IF s # <<>> /\ s[1] \in Whitespace THEN LStrip(Tail(s)) ELSE s

RECURSIVE RStrip(_)
RStrip(s) ==
    IF s # <<>> /\ s[Len(s)] \in Whitespace
    THEN RStrip(SubSeq(s, 1, Len(s) - 1)) ELSE s

\* str.strip()
Strip(s) == RStrip(LStrip(s))

\* --------------------------------------------------------------- versions
\* packaging.version.parse on the texts  N(.N)*  and  N(.N)*rcN ; any other
\* text is an InvalidVersion.  A parsed version is its release tuple and its
\* pre-release number (<<>> for a final release).
RECURSIVE LeadingDigits(_)
LeadingDigits(s) ==
    IF s # <<>> /\ IsDigit(s[1]) THEN 1 + LeadingDigits(Tail(s)) ELSE 0

RECURSIVE IntsOf(_)
IntsOf(segs) ==
    IF segs = <<>> THEN <<>> ELSE <<ParseInt(segs[1])>> \o IntsOf(Tail(segs))

InvalidVersion == [valid |-> FALSE, release |-> <<>>, pre |-> <<>>]

TagOk(tag) ==
    \/ tag = <<>>
    \/ /\ Len(tag) >= 3
       /\ SubSeq(tag, 1, 2) = <<"r", "c">>
       /\ IsDigits(SubSeq(tag, 3, Len(tag)))

\* head: the segments before the last; digits and tag: the last segment's.
ParseChecked(head, digits, tag) ==
    IF /\ \A i \in 1..Len(head) : IsDigits(head[i])
       /\ digits # <<>>
       /\ TagOk(tag)
    THEN [valid   |-> TRUE,
          release |-> IntsOf(head) \o <<ParseInt(digits)>>,
          pre     |-> IF tag = <<>> THEN <<>> ELSE <<ParseInt(SubSeq(tag, 3, Len(tag)))>>]
    ELSE InvalidVersion

ParseLast(head, last, k) ==
    ParseChecked(head, SubSeq(last, 1, k), SubSeq(last, k + 1, Len(last)))

ParseSegments(head, last) == ParseLast(head, last, LeadingDigits(last))

ParseSplit(segs) == ParseSegments(SubSeq(segs, 1, Len(segs) - 1), segs[Len(segs)])

parse(s) == ParseSplit(Split(s, Dot))

\* Version._key drops the release's trailing zeros before comparing.
RECURSIVE StripZeros(_)
StripZeros(r) ==
    IF r # <<>> /\ r[Len(r)] = 0 THEN StripZeros(SubSeq(r, 1, Len(r) - 1)) ELSE r

\* Python's tuple order.
RECURSIVE TupleLess(_, _)
TupleLess(a, b) ==
    IF b = <<>> THEN FALSE
    ELSE IF a = <<>> THEN TRUE
    ELSE IF a[1] # b[1] THEN a[1] < b[1]
    ELSE TupleLess(Tail(a), Tail(b))

KeyLess(rv, pv, rw, pw) ==
    \/ TupleLess(rv, rw)
    \/ /\ rv = rw
       /\ pv # <<>>
       /\ (pw = <<>> \/ pv[1] < pw[1])

\* Version.__lt__: by release, then a pre-release before its final release.
VersionLess(v, w) == KeyLess(StripZeros(v.release), v.pre, StripZeros(w.release), w.pre)

\* Version.__eq__
VersionEq(v, w) == ~VersionLess(v, w) /\ ~VersionLess(w, v)

\* Version.base_version: the release joined by dots, tags dropped.
RECURSIVE JoinDots(_)
JoinDots(r) ==
    IF Len(r) = 1 THEN IntStr(r[1])
    ELSE IntStr(r[1]) \o Dot \o JoinDots(Tail(r))

base_version(v) == JoinDots(v.release)

\* Version.major and Version.minor
major(v) == IF Len(v.release) >= 1 THEN v.release[1] ELSE 0

minor(v) == IF Len(v.release) >= 2 THEN v.release[2] ELSE 0

\* ------------------------------------------------------------------ state
VARIABLES
    pc,              \* where the load sequence (install.py lines 183-185) is
    installed,       \* the environment's package metadata: name -> version text or None
    req_file,        \* the lines of requirements.txt, as the file iterator yields them
    idx,             \* the line the for loop of install_requirements is at
    log,             \* history: per processed line, the environment before, the
                     \* run_pip calls issued and whether the except clause ran
    raised,          \* an exception left a function and aborted install.py
    cuda_available,  \* torch.cuda.is_available()
    ort,             \* install_onnxruntime's locals, read on entry
    ort_calls,       \* history: the run_pip calls install_onnxruntime issued
    IS_MACOS,
    IS_WINDOWS,
    valid_torch,     \* is_valid_torch_version()
    op_lib,          \* ops/lib: NoDir, or the set of files in it
    op_logs,         \* logs/: NoDir, or the log files in it with their content
    subprocess_runs, \* how many times subprocess.run was called
    runs,            \* how many times install_xpose was entered
    xpose_hist       \* history: what each install_xpose run did, with the files before

reqVars == <<req_file, idx, log>>

ortVars == <<cuda_available, ort, ort_calls>>

xposeVars == <<IS_MACOS, IS_WINDOWS, valid_torch, op_lib, op_logs, subprocess_runs,
               runs, xpose_hist>>

vars == <<pc, installed, raised, reqVars, ortVars, xposeVars>>

\* ------------------------------------------------------- package metadata
PkgA == <<"a">>

ONNX == <<"o", "n", "n", "x">>

ONNXRUNTIME == ONNX \o <<"r", "u", "n", "t", "i", "m", "e">>

ONNXRUNTIME_GPU == ONNXRUNTIME \o <<"-", "g", "p", "u">>

EqEq == <<"=", "=">>

GtEq == <<">", "=">>

LtEq == <<"<", "=">>

\* `not x` for an Optional[str]
Falsy(x) == x = None \/ x = <<>>

get_installed_version(env, package) ==
    IF package \in DOMAIN env THEN env[package] ELSE None

\* launch.is_installed (the host's): a distribution of that name has metadata.
is_installed(env, package) ==
    package \in DOMAIN env /\ env[package] # None

extract_base_package(package_string) == Split(package_string, <<"@", "g", "i", "t">>)[1]

\* ------------------------------------------------------------- the installer
\* launch.run_pip is the host's and pip the installer's.  A call is the pip
\* arguments: whether -U is passed, and the requirement text.  A call either
\* fails (run_pip raises, the environment is as it was) or installs, for the
\* requirement's package, one of the published versions the requirement admits.
PipCall(upgrade, req) == [upgrade |-> upgrade, req |-> req]

Published(name) ==
    IF name = PkgA THEN {V2(1, 0), V3(1, 0, 0), V2(1, 1)}
    ELSE IF name \in {ONNXRUNTIME, ONNXRUNTIME_GPU}
    THEN {V3(1, 16, 0), V3(1, 17, 0), V3(1, 18, 0)}
    ELSE {}

\* The published versions of name that satisfy ==declared or >=declared.
Candidates(name, declared, at_least) ==
    IF ~declared.valid THEN {}
    ELSE {v \in Published(name) :
            IF at_least THEN ~VersionLess(parse(v), declared)
            ELSE VersionEq(parse(v), declared)}

Admitted(parts, at_least) ==
    IF Len(parts) = 2
    THEN [name |-> parts[1], versions |-> Candidates(parts[1], parse(parts[2]), at_least)]
    ELSE [name |-> <<>>, versions |-> {}]

AnyVersion(name) == [name |-> name, versions |-> Published(name)]

\* The package and the versions a requirement text admits.
PipAdmits(req) ==
    IF Contains(req, EqEq) THEN Admitted(Split(req, EqEq), FALSE)
    ELSE IF Contains(req, GtEq) THEN Admitted(Split(req, GtEq), TRUE)
    ELSE AnyVersion(Strip(Split(req, <<"@">>)[1]))

Installing(env, admitted) ==
    {[env EXCEPT ![admitted.name] = v] : v \in admitted.versions}

\* The environments a successful run of the call can leave.
PipSuccess(env, call) == Installing(env, PipAdmits(call.req))

\* ------------------------------------------------- install_requirements
\* What one pass of the loop body decides before the installer runs: the call
\* it issues (at most one), or that an exception was raised before any call.
NoCall == [exc |-> FALSE, calls |-> <<>>]

Call(c) == [exc |-> FALSE, calls |-> <<c>>]

Raise == [exc |-> TRUE, calls |-> <<>>]

\* Mutant: the installed and the declared version compared as versions.
ExactPartsParsed(env, package, parts) ==
    IF Len(parts) # 2 THEN Raise
    ELSE IF \/ Falsy(get_installed_version(env, parts[1]))
            \/ ~VersionEq(parse(get_installed_version(env, parts[1])), parse(parts[2]))
    THEN Call(PipCall(TRUE, package))
    ELSE NoCall

\* Lines 53-59, parts being package.split("==").
ExactParts(env, package, parts) ==
    IF Len(parts) # 2 THEN Raise
    ELSE IF get_installed_version(env, parts[1]) # parts[2]
    THEN Call(PipCall(TRUE, package))
    ELSE NoCall

ExactBranch(env, package) == ExactParts(env, package, Split(package, EqEq))

\* Mutant: the comparison is <= where the code has <.
LowerCompareOrEqual(package, found, declared) ==
    IF ~found.valid \/ ~declared.valid THEN Raise
    ELSE IF ~VersionLess(declared, found) THEN Call(PipCall(TRUE, package))
    ELSE NoCall

\* parse(installed_version) < parse(package_version), and the call it guards.
LowerCompare(package, found, declared) ==
    IF ~found.valid \/ ~declared.valid THEN Raise
    ELSE IF VersionLess(found, declared) THEN Call(PipCall(TRUE, package))
    ELSE NoCall

\* Lines 61-69, parts being package.split(">=").
LowerParts(env, package, parts) ==
    IF Len(parts) # 2 THEN Raise
    ELSE IF Falsy(get_installed_version(env, parts[1])) THEN Call(PipCall(TRUE, package))
    ELSE LowerCompare(package, parse(get_installed_version(env, parts[1])), parse(parts[2]))

LowerBoundBranch(env, package) == LowerParts(env, package, Split(package, GtEq))

\* Mutant: the line itself is installed, as the other branches do.
UpperCallLine(package_name, package_version) ==
    PipCall(FALSE, package_name \o LtEq \o package_version)

\* Line 77: install "{package_name}=={package_version}"
UpperCall(package_name, package_version) ==
    PipCall(FALSE, package_name \o EqEq \o package_version)

\* parse(installed_version) > parse(package_version), and the call it guards.
UpperCompare(parts, found, declared) ==
    IF ~found.valid \/ ~declared.valid THEN Raise
    ELSE IF VersionLess(declared, found) THEN Call(UpperCall(parts[1], parts[2]))
    ELSE NoCall

\* Lines 71-79, parts being package.split("<=").
UpperParts(env, parts) ==
    IF Len(parts) # 2 THEN Raise
    ELSE IF Falsy(get_installed_version(env, parts[1]))
    THEN Call(UpperCall(parts[1], parts[2]))
    ELSE UpperCompare(parts, parse(get_installed_version(env, parts[1])), parse(parts[2]))

UpperBoundBranch(env, package) == UpperParts(env, Split(package, LtEq))

BareBranch(env, package) ==
    IF ~is_installed(env, extract_base_package(package))
    THEN Call(PipCall(FALSE, package))
    ELSE NoCall

\* The operator tests of lines 52, 60, 70 and 80 on the stripped line.
Dispatch(env, package) ==
    IF Contains(package, EqEq) THEN ExactBranch(env, package)
    ELSE IF Contains(package, GtEq) THEN LowerBoundBranch(env, package)
    ELSE IF Contains(package, LtEq) THEN UpperBoundBranch(env, package)
    ELSE BareBranch(env, package)

\* The body of the try block, up to the run_pip call.
HandleRequirement(env, line) == Dispatch(env, Strip(line))

\* Mutant: the try block is around the loop, and an exception ends it.
AfterExceptionStops(i) == Len(req_file) + 1

\* The except clause prints and the for loop goes on with the next line.
AfterException(i) == i + 1

Entry(line, env, calls, failed) ==
    [line |-> line, before |-> env, calls |-> calls, failed |-> failed]

InLoop == pc = "install_requirements" /\ idx <= Len(req_file)

\* The line needs nothing: no call, no exception.
ReqSatisfied ==
    /\ InLoop
    /\ \E d \in {HandleRequirement(installed, req_file[idx])} :
           /\ ~d.exc /\ d.calls = <<>>
           /\ log' = Append(log, Entry(req_file[idx], installed, <<>>, FALSE))
    /\ idx' = idx + 1
    /\ UNCHANGED <<pc, installed, raised, req_file, ortVars, xposeVars>>

\* The line raised before any call (split's unpacking, InvalidVersion).
ReqRaises ==
    /\ InLoop
    /\ \E d \in {HandleRequirement(installed, req_file[idx])} :
           /\ d.exc
           /\ log' = Append(log, Entry(req_file[idx], installed, <<>>, TRUE))
    /\ idx' = AfterException(idx)
    /\ UNCHANGED <<pc, installed, raised, req_file, ortVars, xposeVars>>

\* run_pip was called and installed.
ReqPipInstalls ==
    /\ InLoop
    /\ \E d \in {HandleRequirement(installed, req_file[idx])} :
           /\ d.calls # <<>>
           /\ \E env \in PipSuccess(installed, d.calls[1]) : installed' = env
           /\ log' = Append(log, Entry(req_file[idx], installed, d.calls, FALSE))
    /\ idx' = idx + 1
    /\ UNCHANGED <<pc, raised, req_file, ortVars, xposeVars>>

\* run_pip was called and raised.
ReqPipFails ==
    /\ InLoop
    /\ \E d \in {HandleRequirement(installed, req_file[idx])} :
           /\ d.calls # <<>>
           /\ log' = Append(log, Entry(req_file[idx], installed, d.calls, TRUE))
    /\ idx' = AfterException(idx)
    /\ UNCHANGED <<pc, installed, raised, req_file, ortVars, xposeVars>>

\* The file is exhausted: install_requirements returns.
ReqReturn ==
    /\ pc = "install_requirements"
    /\ idx > Len(req_file)
    /\ pc' = "install_onnxruntime"
    /\ UNCHANGED <<installed, raised, reqVars, ortVars, xposeVars>>

NextReq == ReqSatisfied \/ ReqRaises \/ ReqPipInstalls \/ ReqPipFails \/ ReqReturn

\* --------------------------------------------------- install_onnxruntime
onnx_to_onnx_runtime_versions ==
    << <<V3(1, 16, 1), V2(1, 18)>>,
       <<V3(1, 16, 0), V2(1, 18)>>,
       <<V3(1, 15, 0), V2(1, 17)>>,
       <<V3(1, 14, 1), V2(1, 16)>>,
       <<V3(1, 14, 0), V2(1, 15)>>,
       <<V3(1, 13, 1), V2(1, 14)>>,
       <<V3(1, 13, 0), V2(1, 14)>>,
       <<V3(1, 12, 0), V2(1, 13)>>,
       <<V3(1, 11, 0), V2(1, 11)>>,
       <<V3(1, 10, 2), V2(1, 10)>>,
       <<V3(1, 10, 1), V2(1, 10)>>,
       <<V3(1, 10, 0), V2(1, 10)>> >>

\* dict.get(key, None)
DictGet(d, key) ==
    IF \E i \in 1..Len(d) : d[i][1] = key
    THEN d[CHOOSE i \in 1..Len(d) : d[i][1] = key][2]
    ELSE None

\* Mutant: the table is asked for the installed text, tags and all.
get_onnxruntime_version_raw(env) ==
    LET installed_onnx_version == get_installed_version(env, ONNX)
    IN  IF ~Falsy(installed_onnx_version)
        THEN DictGet(onnx_to_onnx_runtime_versions, installed_onnx_version)
        ELSE None

get_onnxruntime_version_given_onnx_version(env) ==
    LET installed_onnx_version == get_installed_version(env, ONNX)
    IN  IF ~Falsy(installed_onnx_version)
        THEN DictGet(onnx_to_onnx_runtime_versions,
                     base_version(parse(installed_onnx_version)))
        ELSE None

\* Mutant: only the major numbers are compared.
are_versions_similar_major(version_left, version_right) ==
    major(parse(version_left)) = major(parse(version_right))

are_versions_similar(version_left, version_right) ==
    /\ major(parse(version_left)) = major(parse(version_right))
    /\ minor(parse(version_left)) = minor(parse(version_right))

\* The three reads install_onnxruntime starts with.
OrtLocals(env) ==
    [cpu      |-> get_installed_version(env, ONNXRUNTIME),
     gpu      |-> get_installed_version(env, ONNXRUNTIME_GPU),
     expected |-> get_onnxruntime_version_given_onnx_version(env)]

NoLocals == [cpu |-> None, gpu |-> None, expected |-> None]

\* Mutant: `or` where the code has `and`.
EitherMissing(l) == Falsy(l.cpu) \/ Falsy(l.gpu)

\* The condition of the first branch.
NeitherInstalled(l) == Falsy(l.cpu) /\ Falsy(l.gpu)

\* The requirement the first branch installs.
FreshPackage(l, cuda) ==
    LET onnxruntime == IF cuda THEN ONNXRUNTIME_GPU ELSE ONNXRUNTIME
    IN  IF ~Falsy(l.expected) THEN onnxruntime \o EqEq \o l.expected ELSE onnxruntime

\* The condition of each of the else branch's two checks.
NeedsReinstall(installed_version, expected) ==
    /\ ~Falsy(installed_version)
    /\ ~Falsy(expected)
    /\ ~are_versions_similar(installed_version, expected)

AtOrt == pc = "install_onnxruntime"

FreshCall(l) == PipCall(FALSE, FreshPackage(l, cuda_available))

CpuCall(l) == PipCall(FALSE, ONNXRUNTIME \o EqEq \o l.expected)

GpuCall(l) == PipCall(FALSE, ONNXRUNTIME_GPU \o EqEq \o l.expected)

OrtFreshInstalls ==
    /\ AtOrt
    /\ \E l \in {OrtLocals(installed)} :
           /\ NeitherInstalled(l)
           /\ \E env \in PipSuccess(installed, FreshCall(l)) : installed' = env
           /\ ort' = l
           /\ ort_calls' = <<FreshCall(l)>>
    /\ pc' = "install_xpose"
    /\ UNCHANGED <<raised, cuda_available, reqVars, xposeVars>>

\* run_pip raises; nothing in install_onnxruntime catches it.
OrtFreshFails ==
    /\ AtOrt
    /\ \E l \in {OrtLocals(installed)} :
           /\ NeitherInstalled(l)
           /\ ort' = l
           /\ ort_calls' = <<FreshCall(l)>>
    /\ raised' = TRUE
    /\ pc' = "aborted"
    /\ UNCHANGED <<installed, cuda_available, reqVars, xposeVars>>

OrtCpuKept ==
    /\ AtOrt
    /\ \E l \in {OrtLocals(installed)} :
           /\ ~NeitherInstalled(l)
           /\ ~NeedsReinstall(l.cpu, l.expected)
           /\ ort' = l
    /\ pc' = "onnxruntime_gpu_check"
    /\ UNCHANGED <<installed, raised, cuda_available, ort_calls, reqVars, xposeVars>>

OrtCpuReinstalls ==
    /\ AtOrt
    /\ \E l \in {OrtLocals(installed)} :
           /\ ~NeitherInstalled(l)
           /\ NeedsReinstall(l.cpu, l.expected)
           /\ \E env \in PipSuccess(installed, CpuCall(l)) : installed' = env
           /\ ort' = l
           /\ ort_calls' = Append(ort_calls, CpuCall(l))
    /\ pc' = "onnxruntime_gpu_check"
    /\ UNCHANGED <<raised, cuda_available, reqVars, xposeVars>>

OrtCpuFails ==
    /\ AtOrt
    /\ \E l \in {OrtLocals(installed)} :
           /\ ~NeitherInstalled(l)
           /\ NeedsReinstall(l.cpu, l.expected)
           /\ ort' = l
           /\ ort_calls' = Append(ort_calls, CpuCall(l))
    /\ raised' = TRUE
    /\ pc' = "aborted"
    /\ UNCHANGED <<installed, cuda_available, reqVars, xposeVars>>

AtGpuCheck == pc = "onnxruntime_gpu_check"

OrtGpuKept ==
    /\ AtGpuCheck
    /\ ~NeedsReinstall(ort.gpu, ort.expected)
    /\ pc' = "install_xpose"
    /\ UNCHANGED <<installed, raised, ortVars, reqVars, xposeVars>>

OrtGpuReinstalls ==
    /\ AtGpuCheck
    /\ NeedsReinstall(ort.gpu, ort.expected)
    /\ \E env \in PipSuccess(installed, GpuCall(ort)) : installed' = env
    /\ ort_calls' = Append(ort_calls, GpuCall(ort))
    /\ pc' = "install_xpose"
    /\ UNCHANGED <<raised, cuda_available, ort, reqVars, xposeVars>>

OrtGpuFails ==
    /\ AtGpuCheck
    /\ NeedsReinstall(ort.gpu, ort.expected)
    /\ ort_calls' = Append(ort_calls, GpuCall(ort))
    /\ raised' = TRUE
    /\ pc' = "aborted"
    /\ UNCHANGED <<installed, cuda_available, ort, reqVars, xposeVars>>

NextOrt ==
    \/ OrtFreshInstalls \/ OrtFreshFails
    \/ OrtCpuKept \/ OrtCpuReinstalls \/ OrtCpuFails
    \/ OrtGpuKept \/ OrtGpuReinstalls \/ OrtGpuFails

\* ---------------------------------------------------------- install_xpose
\* A file is its name's stem, its extension and what wrote it.
File(stem, ext, content) == [stem |-> stem, ext |-> ext, content |-> content]

MSDA == "MultiScaleDeformableAttention"

\* What rglob can find under the temporary directory's build/ after the
\* subprocess: nothing, the artifact for either platform, other objects.
BuildTrees ==
    { {},
      {File(MSDA, ".so", "built")},
      {File(MSDA, ".pyd", "built")},
      {File(MSDA, ".so", "built"), File("other", ".so", "built")} }

\* Popen.returncode: 0, an exit status, or minus the signal that killed the child.
ReturnCodes == {0 - 9, 0, 1}

NoDir == [exists |-> FALSE, files |-> {}]

Dir(files) == [exists |-> TRUE, files |-> files]

\* os.makedirs(d, exist_ok=True) when d does not exist
MakeDirs(d) == IF d.exists THEN d ELSE Dir({})

\* open(f, 'w') of both log files, then the subprocess writes them.
WriteLogs(d) ==
    Dir({f \in d.files : f.stem \notin {"xpose", "xpose.err"}}
        \cup {File("xpose", ".log", "written"), File("xpose.err", ".log", "written")})

\* Lines 146-148: the platform and torch guard.
Incompatible == IS_MACOS \/ ~valid_torch

\* Mutant: the destination's files are looked at, and stale ones do not count.
NeedsBuildUnlessFresh(lib) ==
    ~lib.exists \/ Cardinality({f \in lib.files : f.content = "built"}) = 0

\* Line 151: the destination is missing or empty.
NeedsBuild(lib) == ~lib.exists \/ Cardinality(lib.files) = 0

\* Line 172: the build is taken to have failed.
BuildFailed(returncode) == returncode > 0

extension == IF IS_WINDOWS THEN ".pyd" ELSE ".so"

\* Lines 179-180: rglob("MultiScaleDeformableAttention*<extension>") and copy2.
Artifacts(tree) == {f \in tree : f.stem = MSDA /\ f.ext = extension}

Ran(what, rc, lib, logs, n) ==
    [what |-> what, returncode |-> rc,
     lib_before |-> op_lib, logs_before |-> op_logs, runs_before |-> subprocess_runs,
     lib_after |-> lib, logs_after |-> logs, runs_after |-> n]

AtXpose == pc = "install_xpose"

XposeIncompatible ==
    /\ AtXpose
    /\ Incompatible
    /\ xpose_hist' = Append(xpose_hist, Ran("incompatible", 0, op_lib, op_logs, subprocess_runs))
    /\ pc' = "done"
    /\ UNCHANGED <<installed, raised, reqVars, ortVars, IS_MACOS, IS_WINDOWS, valid_torch,
                   op_lib, op_logs, subprocess_runs, runs>>

XposePresent ==
    /\ AtXpose
    /\ ~Incompatible
    /\ ~NeedsBuild(op_lib)
    /\ xpose_hist' = Append(xpose_hist, Ran("present", 0, op_lib, op_logs, subprocess_runs))
    /\ pc' = "done"
    /\ UNCHANGED <<installed, raised, reqVars, ortVars, IS_MACOS, IS_WINDOWS, valid_torch,
                   op_lib, op_logs, subprocess_runs, runs>>

XposeBuildFails ==
    /\ AtXpose
    /\ ~Incompatible
    /\ NeedsBuild(op_lib)
    /\ \E returncode \in ReturnCodes :
          /\ BuildFailed(returncode)
          /\ op_lib' = MakeDirs(op_lib)
          /\ op_logs' = WriteLogs(MakeDirs(op_logs))
          /\ subprocess_runs' = subprocess_runs + 1
          /\ xpose_hist' = Append(xpose_hist,
                                  Ran("failed", returncode, op_lib', op_logs', subprocess_runs'))
    /\ pc' = "done"
    /\ UNCHANGED <<installed, raised, reqVars, ortVars, IS_MACOS, IS_WINDOWS, valid_torch, runs>>

XposeBuildCopies ==
    /\ AtXpose
    /\ ~Incompatible
    /\ NeedsBuild(op_lib)
    /\ \E returncode \in ReturnCodes, tree \in BuildTrees :
          /\ ~BuildFailed(returncode)
          /\ op_lib' = Dir(MakeDirs(op_lib).files \cup Artifacts(tree))
          /\ op_logs' = WriteLogs(MakeDirs(op_logs))
          /\ subprocess_runs' = subprocess_runs + 1
          /\ xpose_hist' = Append(xpose_hist,
                                  Ran("copied", returncode, op_lib', op_logs', subprocess_runs'))
    /\ pc' = "done"
    /\ UNCHANGED <<installed, raised, reqVars, ortVars, IS_MACOS, IS_WINDOWS, valid_torch, runs>>

NextXposeOnce == XposeIncompatible \/ XposePresent \/ XposeBuildFails \/ XposeBuildCopies

\* The host starts again and loads the extension again: install.py runs from
\* its first statement, on the files the earlier run left.
Restart ==
    /\ pc = "done"
    /\ runs < MaxRuns
    /\ runs' = runs + 1
    /\ pc' = "install_requirements"
    /\ idx' = 1
    /\ log' = <<>>
    /\ ort' = NoLocals
    /\ ort_calls' = <<>>
    /\ UNCHANGED <<installed, raised, req_file, cuda_available, IS_MACOS, IS_WINDOWS,
                   valid_torch, op_lib, op_logs, subprocess_runs, xpose_hist>>

\* ------------------------------------------------------------ the inputs
Packages == {PkgA, ONNX, ONNXRUNTIME, ONNXRUNTIME_GPU}

Env(a, onnx, cpu, gpu) ==
    [p \in Packages |->
        IF p = PkgA THEN a ELSE IF p = ONNX THEN onnx
        ELSE IF p = ONNXRUNTIME THEN cpu ELSE gpu]

NL == <<"\n">>

RC1 == <<"r", "c", "1">>

\* Versions a requirement line declares, and versions package a is found at.
DeclaredVersions == {V2(1, 0), V3(1, 0, 0)}

InstalledA == {None, V2(0, 9), V2(1, 0), V3(1, 0, 0), V2(1, 0) \o RC1, V2(1, 1)}

Operators == {EqEq, GtEq, LtEq}

OperatorLines == {PkgA \o op \o v \o NL : op \in Operators, v \in DeclaredVersions}

GitUrl == <<"@", "g", "i", "t", "+", "u">>

\* The same reference as pip freeze writes it: name @ git+u
SpacedGitUrl == <<" ", "@", " ", "g", "i", "t", "+", "u">>

BareLines ==
    {PkgA \o NL, PkgA \o GitUrl \o NL, PkgA \o SpacedGitUrl \o NL}

\* Lines that fail: too many values to unpack, an invalid version, an empty
\* requirement the installer rejects.
MalformedLines ==
    {PkgA \o EqEq \o V2(1, 0) \o EqEq \o V2(1, 0) \o NL, PkgA \o GtEq \o <<"x">> \o NL, NL}

ReqLines == OperatorLines \cup BareLines \cup MalformedLines

ReqFiles == UNION {[1..n -> ReqLines] : n \in 1..MaxReqs}

InstalledOnnx ==
    {None, V3(1, 14, 1), V3(1, 14, 1) \o RC1, V3(1, 15, 0), V2(1, 14), V3(1, 9, 0)}

InstalledRuntime == {None, V3(1, 16, 0), V3(1, 16, 1), V3(1, 17, 0), V3(2, 16, 0)}

LibDirs ==
    {NoDir, Dir({}), Dir({File(MSDA, ".so", "stale")}), Dir({File("notes", ".txt", "stale")})}

LogDirs ==
    {NoDir, Dir({}),
     Dir({File("xpose", ".log", "old"), File("xpose.err", ".log", "old"),
          File("other", ".log", "old")})}

\* The state before install.py's first statement, apart from the inputs.
Fresh ==
    /\ pc = "install_requirements"
    /\ idx = 1
    /\ log = <<>>
    /\ raised = FALSE
    /\ ort = NoLocals
    /\ ort_calls = <<>>
    /\ subprocess_runs = 0
    /\ runs = 1
    /\ xpose_hist = <<>>

\* install_requirements on every requirements file and every state of package a.
InitReq ==
    /\ Fresh
    /\ req_file \in ReqFiles
    /\ installed \in {Env(a, None, None, None) : a \in InstalledA}
    /\ cuda_available = FALSE
    /\ IS_MACOS = FALSE /\ IS_WINDOWS = FALSE /\ valid_torch = TRUE
    /\ op_lib = NoDir /\ op_logs = NoDir

SpecReq == InitReq /\ [][NextReq]_vars

\* install_onnxruntime on every state of onnx and of the two runtimes, after
\* an empty requirements file.
InitOrt ==
    /\ Fresh
    /\ req_file = <<>>
    /\ installed \in {Env(None, o, c, g) :
                        o \in InstalledOnnx, c \in InstalledRuntime, g \in InstalledRuntime}
    /\ cuda_available \in BOOLEAN
    /\ IS_MACOS = FALSE /\ IS_WINDOWS = FALSE /\ valid_torch = TRUE
    /\ op_lib = NoDir /\ op_logs = NoDir

SpecOrt == InitOrt /\ [][ReqReturn \/ NextOrt]_vars

\* install_xpose on every platform and every state of the two directories,
\* after an empty requirements file and with a runtime that is kept.
InitXpose ==
    /\ Fresh
    /\ req_file = <<>>
    /\ installed = Env(None, None, V3(1, 16, 0), None)
    /\ cuda_available = FALSE
    /\ IS_MACOS \in BOOLEAN /\ IS_WINDOWS \in BOOLEAN /\ valid_torch \in BOOLEAN
    /\ op_lib \in LibDirs /\ op_logs \in LogDirs

NextXpose == ReqReturn \/ OrtCpuKept \/ OrtGpuKept \/ NextXposeOnce \/ Restart

SpecXpose == InitXpose /\ [][NextXpose]_vars

\* The whole load sequence, on requirements files of at most one line.
Init ==
    /\ Fresh
    /\ req_file \in UNION {[1..n -> ReqLines] : n \in 0..1}
    /\ installed \in {Env(a, o, c, g) :
                        a \in {None, V2(1, 0)}, o \in {None, V3(1, 14, 1)},
                        c \in {None, V3(1, 17, 0)}, g \in {None, V3(1, 17, 0)}}
    /\ cuda_available \in BOOLEAN
    /\ IS_MACOS \in BOOLEAN /\ IS_WINDOWS = FALSE /\ valid_torch = TRUE
    /\ op_lib \in {NoDir, Dir({File(MSDA, ".so", "stale")})} /\ op_logs = NoDir

Next == NextReq \/ NextOrt \/ NextXposeOnce \/ Restart

Spec == Init /\ [][Next]_vars

\* ----------------------------------------------------------------- claims
\* The PEP 440 order of the version texts in use, written out by hand: equal
\* ranks are equal versions (1.0 and 1.0.0), a release candidate comes before
\* its release.
VersionRank(v) ==
    CASE v = V2(0, 9)        -> 0
      [] v = V2(1, 0) \o RC1 -> 1
      [] v = V2(1, 0)        -> 2
      [] v = V3(1, 0, 0)     -> 2
      [] v = V2(1, 1)        -> 3

Returned == pc = "install_onnxruntime"

Processed == 1..Len(log)

\* C1: a line name==version issues no install call when the installed version
\* text is the declared one, and otherwise (absent, or any other text, 1.0
\* against 1.0.0 included) exactly one call, install -U "name==version".
C1_ExactPin ==
    \A i \in Processed : \A v \in DeclaredVersions :
        log[i].line = PkgA \o EqEq \o v \o NL =>
            IF log[i].before[PkgA] = v
            THEN log[i].calls = <<>>
            ELSE log[i].calls = <<PipCall(TRUE, PkgA \o EqEq \o v)>>

\* Both cases of C1 in one run: a satisfied line, then a line whose version
\* differs from the installed one.
C1_Witness ==
    /\ Len(log) = 2
    /\ log[1].line = PkgA \o EqEq \o V2(1, 0) \o NL
    /\ log[1].before[PkgA] = V2(1, 0)
    /\ log[1].calls = <<>>
    /\ log[2].line = PkgA \o EqEq \o V3(1, 0, 0) \o NL
    /\ log[2].calls # <<>>

\* C2: a line name>=version issues an install call (install -U of the line)
\* exactly when the package is absent or installed at a strictly lower
\* version; an equal or higher installed version issues none.
C2_LowerBound ==
    \A i \in Processed : \A v \in DeclaredVersions :
        log[i].line = PkgA \o GtEq \o v \o NL =>
            LET inst == log[i].before[PkgA]
            IN  IF inst = None \/ VersionRank(inst) < VersionRank(v)
                THEN log[i].calls = <<PipCall(TRUE, PkgA \o GtEq \o v)>>
                ELSE log[i].calls = <<>>

\* A lower version (the release candidate) is upgraded, and the line after it
\* finds an equal or higher version and issues nothing.
C2_Witness ==
    /\ Len(log) = 2
    /\ log[1].line = PkgA \o GtEq \o V2(1, 0) \o NL
    /\ log[1].before[PkgA] = V2(1, 0) \o RC1
    /\ log[1].calls # <<>>
    /\ log[2].line = PkgA \o GtEq \o V3(1, 0, 0) \o NL
    /\ log[2].before[PkgA] # None
    /\ log[2].calls = <<>>

\* C3: a line name<=version issues an install call exactly when the package
\* is absent or installed at a strictly higher version, and the call is
\* install "name==version": the declared bound itself.
C3_UpperBound ==
    \A i \in Processed : \A v \in DeclaredVersions :
        log[i].line = PkgA \o LtEq \o v \o NL =>
            LET inst == log[i].before[PkgA]
            IN  IF inst = None \/ VersionRank(inst) > VersionRank(v)
                THEN log[i].calls = <<PipCall(FALSE, PkgA \o EqEq \o v)>>
                ELSE log[i].calls = <<>>

\* A higher version is pinned down to the bound, and an equal one is left.
C3_Witness ==
    /\ Len(log) = 2
    /\ log[1].line = PkgA \o LtEq \o V3(1, 0, 0) \o NL
    /\ log[1].before[PkgA] = V2(1, 1)
    /\ log[1].calls # <<>>
    /\ log[2].line = PkgA \o LtEq \o V2(1, 0) \o NL
    /\ log[2].before[PkgA] = V3(1, 0, 0)
    /\ log[2].calls = <<>>

\* The environment the line after line i is handled in.
EnvAfter(i) == IF i < Len(log) THEN log[i + 1].before ELSE installed

\* C4: a line that fails (a malformed line, a run_pip that raises) does not
\* stop the loop: install_requirements returns without raising, having handled
\* every line of the file; the failing line leaves the environment as it found
\* it, so every later line is decided on the environment, and gets the
\* decision, it would have without the failing line.
C4_FailureIsLocal ==
    pc # "install_requirements" =>
        /\ Returned
        /\ ~raised
        /\ Len(log) = Len(req_file)
        /\ \A f \in Processed :
              log[f].failed =>
                 /\ EnvAfter(f) = log[f].before
                 /\ \A i \in (f + 1)..Len(log) :
                       /\ log[i].line = req_file[i]
                       /\ log[i].calls = HandleRequirement(log[i].before, req_file[i]).calls

\* A failing first line, and a second line that is installed all the same.
C4_Witness ==
    /\ Returned
    /\ Len(log) = 2
    /\ log[1].failed
    /\ log[2].calls # <<>>
    /\ ~log[2].failed
    /\ installed # log[2].before

\* C9: a line without an operator, with or without a version-control suffix
\* after an `@`, issues an install call exactly when the package it names is
\* not installed.
C9_BareInstalledOnce ==
    \A i \in Processed :
        log[i].line \in BareLines =>
            (log[i].calls # <<>> <=> log[i].before[PkgA] = None)

\* The runtime version the compatibility table gives for the ONNX texts in
\* use, written out by hand: the table's entry for the release numbers, and
\* None for no ONNX, a two-number version and a version the table lacks.
RequiredRuntime(onnx) ==
    CASE onnx = V3(1, 14, 1)        -> V2(1, 16)
      [] onnx = V3(1, 14, 1) \o RC1 -> V2(1, 16)
      [] onnx = V3(1, 15, 0)        -> V2(1, 17)
      [] OTHER                      -> None

\* The pairs (installed runtime, required version) with equal major and minor.
SimilarPairs ==
    { <<V3(1, 16, 0), V2(1, 16)>>, <<V3(1, 16, 1), V2(1, 16)>>, <<V3(1, 17, 0), V2(1, 17)>> }

BothRuntimes(env) == env[ONNXRUNTIME] # None /\ env[ONNXRUNTIME_GPU] # None

ExactlyOneRuntime(env) == (env[ONNXRUNTIME] # None) # (env[ONNXRUNTIME_GPU] # None)

\* install_onnxruntime has read its locals and gone on, or has ended.
OrtStarted == pc \in {"onnxruntime_gpu_check", "install_xpose", "aborted"}

OrtReturned == pc = "install_xpose"

NoneAtEntry == ort.cpu = None /\ ort.gpu = None

BothAtEntry == ort.cpu # None /\ ort.gpu # None

C7_FreshInstall ==
    (OrtStarted /\ NoneAtEntry) =>
        LET name     == IF cuda_available THEN ONNXRUNTIME_GPU ELSE ONNXRUNTIME
            required == RequiredRuntime(installed[ONNX])
        IN  ort_calls = <<PipCall(FALSE, IF required = None THEN name
                                          ELSE name \o EqEq \o required)>>

\* An accelerator and a release candidate of ONNX 1.14.1: onnxruntime-gpu 1.16
\* is what got installed.
C7_Witness ==
    /\ OrtReturned /\ NoneAtEntry
    /\ cuda_available
    /\ installed[ONNX] = V3(1, 14, 1) \o RC1
    /\ installed[ONNXRUNTIME_GPU] = V3(1, 16, 0)
    /\ installed[ONNXRUNTIME] = None

\* The call C10 asks of an installed variant.
Reinstall(name, version, required) ==
    IF version # None /\ required # None /\ <<version, required>> \notin SimilarPairs
    THEN <<PipCall(FALSE, name \o EqEq \o required)>>
    ELSE <<>>

IsPrefix(a, b) == Len(a) <= Len(b) /\ SubSeq(b, 1, Len(a)) = a

\* C10: with a runtime installed, each installed variant whose major or minor
\* number differs from the required version's gets one call pinning it to the
\* required version, and a variant that differs in the patch number only, or
\* any variant when no version is required, gets none.  A run_pip that raises
\* ends install_onnxruntime after the call that raised.
C10_ReinstallDissimilar ==
    (OrtStarted /\ ~NoneAtEntry) =>
        LET required == RequiredRuntime(installed[ONNX])
            cpu      == Reinstall(ONNXRUNTIME, ort.cpu, required)
            gpu      == Reinstall(ONNXRUNTIME_GPU, ort.gpu, required)
        IN  /\ pc = "onnxruntime_gpu_check" => ort_calls = cpu
            /\ OrtReturned => ort_calls = cpu \o gpu
            /\ pc = "aborted" => ort_calls # <<>> /\ IsPrefix(ort_calls, cpu \o gpu)

\* 1.16.1 against the required 1.16 is left alone and 1.17.0 is reinstalled.
C10_Witness ==
    /\ OrtReturned
    /\ installed[ONNX] = V3(1, 14, 1)
    /\ ort.cpu = V3(1, 16, 1)
    /\ ort.gpu = V3(1, 17, 0)
    /\ ort_calls = <<PipCall(FALSE, ONNXRUNTIME_GPU \o EqEq \o V2(1, 16))>>
    /\ installed[ONNXRUNTIME] = V3(1, 16, 1)
    /\ installed[ONNXRUNTIME_GPU] = V3(1, 16, 0)

Runs == 1..Len(xpose_hist)

\* The run called subprocess.run.
Built(h) == h.what \in {"failed", "copied"}

\* C5 as claimed: a build whose subprocess ends with any status other than 0
\* copies no file into ops/lib.
C5_NonzeroCopiesNothing ==
    \A i \in Runs :
        (Built(xpose_hist[i]) /\ xpose_hist[i].returncode # 0) =>
            xpose_hist[i].lib_after.files = xpose_hist[i].lib_before.files

\* The run left ops/lib, logs/ and the subprocess count as they were.
Untouched(h) ==
    /\ h.lib_after = h.lib_before
    /\ h.logs_after = h.logs_before
    /\ h.runs_after = h.runs_before

\* C8: a run of install_xpose that finds ops/lib existing and non-empty,
\* whatever its files hold, or that runs on macOS or with a torch version the
\* predicate rejects, starts no subprocess and leaves ops/lib, logs/ and the
\* log files as they were; so after a run that copied an artifact, no later
\* run builds.
C8_SkipIsNoOp ==
    /\ \A i \in Runs :
          LET h == xpose_hist[i]
          IN  /\ (IS_MACOS \/ ~valid_torch \/ (h.lib_before.exists /\ h.lib_before.files # {}))
                    => ~Built(h) /\ Untouched(h)
              /\ \A j \in Runs :
                    (i < j /\ h.what = "copied" /\ h.lib_after.files # {})
                        => ~Built(xpose_hist[j]) /\ Untouched(xpose_hist[j])
    /\ (pc = "done" /\ xpose_hist # <<>>) =>
          LET last == xpose_hist[Len(xpose_hist)]
          IN  /\ op_lib = last.lib_after
              /\ op_logs = last.logs_after
              /\ subprocess_runs = last.runs_after

\* A first run built and copied the artifact; the second run found it and did
\* nothing.
C8_Witness ==
    /\ pc = "done"
    /\ Len(xpose_hist) = 2
    /\ xpose_hist[1].what = "copied"
    /\ xpose_hist[1].lib_after.files # {}
    /\ xpose_hist[2].what = "present"
    /\ subprocess_runs = 1

====
